---- MODULE Spec2Model ----
(***************************************************************************)
(* Resumable concurrent batch-processing engine of network-traffic:        *)
(* src/main.py (checkpoint/resume, thread-pool scheduling, two-pass        *)
(* aggregation) and src/agents.py (root-cause, normalization and           *)
(* aggregation agents).                                                    *)
(*                                                                         *)
(* Conventions.  Python None is the string "NONE" where a string is        *)
(* expected and the id 0 where a transcript id is expected.  A JSON value  *)
(* of a type the pydantic models reject is "BADTYPE"; a key that is not    *)
(* in a JSON object is "ABSENT"; an unhashable JSON value (list, object)   *)
(* is "UNHASHABLE".                                                        *)
(***************************************************************************)
EXTENDS FiniteSets, Integers, Sequences, TLC

\* ---- bounds of the model ------------------------------------------------
MaxItems == 2        \* transcripts in the input file
MaxWorkersCfg == 2   \* largest configured config.MAX_WORKERS
MaxRuns == 2         \* invocations of main() against the same files
MaxLogLen == 2       \* lines of a pre-existing checkpoint file (SpecLog)
MaxNormCats == 101   \* categories given to normalize_categories (SpecNorm)
MaxSampleLog == 42   \* lines of the checkpoint file pass 2 replays (SpecSample)

\* ---- program constants --------------------------------------------------
batch_size == 50     \* agents.py:81
SampleCap == 40      \* main.py:164
TimelineCut == 3     \* main.py:165
PromptCap == 30      \* agents.py:125

Ids == 1..MaxItems
\* record.get("transcript_id") of an object without that key
NoId == 0

Min(a, b) == IF a < b THEN a ELSE b

RECURSIVE SumF(_)
SumF(f) ==
  IF DOMAIN f = {} THEN 0
  ELSE LET k == CHOOSE x \in DOMAIN f : TRUE
       IN f[k] + SumF([x \in DOMAIN f \ {k} |-> f[x]])

\* dict.get(k, d)
Get(d, k, dflt) == IF k \in DOMAIN d THEN d[k] ELSE dflt

\* d[k] = v
Put(d, k, v) == [x \in DOMAIN d \cup {k} |-> IF x = k THEN v ELSE d[x]]

\* dict.update(m)
Update(d, m) == [x \in DOMAIN d \cup DOMAIN m |-> IF x \in DOMAIN m THEN m[x] ELSE d[x]]

EmptyDict == [x \in {} |-> 0]

\* ---- the inference service's answers to the root-cause prompt ------------
\* invoke_model returns None, "", text that is no JSON, JSON that is no
\* object, or a JSON object; of an object only the five keys read matter.
RcObj(rc, cat, sent, summ, ins) ==
  [kind |-> "OBJ", root_cause |-> rc, root_cause_category |-> cat,
   sentiment |-> sent, summary |-> summ, actionable_insight |-> ins]
RcOther(k) ==
  [kind |-> k, root_cause |-> "ABSENT", root_cause_category |-> "ABSENT",
   sentiment |-> "ABSENT", summary |-> "ABSENT", actionable_insight |-> "ABSENT"]

RcResponses ==
  { RcOther("NONE"), RcOther("EMPTY"), RcOther("GARBAGE"), RcOther("NONOBJ"),
    RcObj("ABSENT", "ABSENT", "ABSENT", "ABSENT", "ABSENT"),
    RcObj("Driver late", "ETA Exceeded", "Negative", "Tow late", "Track ETA"),
    RcObj("Truck delayed", "Eta exceeded", "Negative", "Truck late", "NONE"),
    RcObj("Driver late", "ETA Exceeded", "BADTYPE", "Tow late", "NONE") }

\* AnalysisResult as written to the checkpoint file (tl: timeline length).
Result(id, tl, rc, cat, sent, summ, ins) ==
  [kind |-> "rec", id |-> id, tl |-> tl, root_cause |-> rc,
   root_cause_category |-> cat, sentiment |-> sent, summary |-> summ,
   actionable_insight |-> ins]

DefaultResult(id, tl) ==
  Result(id, tl, "Unknown", "Other", "Neutral", "Analysis failed", "NONE")

\* AnalysisResult(...) validation (src/models.py): every string field must be
\* a string, actionable_insight a string or None.
ValidResult(r) ==
  /\ r.root_cause # "BADTYPE" /\ r.root_cause # "NONE"
  /\ r.root_cause_category # "BADTYPE" /\ r.root_cause_category # "NONE"
  /\ r.sentiment # "BADTYPE" /\ r.sentiment # "NONE"
  /\ r.summary # "BADTYPE" /\ r.summary # "NONE"
  /\ r.actionable_insight # "BADTYPE"

GetF(v, dflt) == IF v = "ABSENT" THEN dflt ELSE v

\* Faulty variant of analyze_root_cause: the JSONDecodeError is not caught.
analyze_root_cause_NoCatch(id, tl, resp) ==
  IF resp.kind \in {"NONE", "EMPTY"}
  THEN [ok |-> TRUE, rec |-> DefaultResult(id, tl), err |-> "NONE"]
  ELSE IF resp.kind \in {"GARBAGE", "NONOBJ"}
  THEN [ok |-> FALSE, rec |-> DefaultResult(id, tl), err |-> "JSONDecodeError"]
  ELSE LET r == Result(id, tl,
                       GetF(resp.root_cause, "Unknown"),
                       GetF(resp.root_cause_category, "Other"),
                       GetF(resp.sentiment, "Neutral"),
                       GetF(resp.summary, "No summary"),
                       GetF(resp.actionable_insight, "NONE"))
       IN IF ValidResult(r)
          THEN [ok |-> TRUE, rec |-> r, err |-> "NONE"]
          ELSE [ok |-> FALSE, rec |-> DefaultResult(id, tl), err |-> "ValidationError"]

\* RootCauseAgent.analyze_root_cause: [ok, rec] or a raised error.
analyze_root_cause(id, tl, resp) ==
  IF resp.kind \in {"NONE", "EMPTY", "GARBAGE"}
  THEN [ok |-> TRUE, rec |-> DefaultResult(id, tl), err |-> "NONE"]
  ELSE IF resp.kind = "NONOBJ"
  THEN [ok |-> FALSE, rec |-> DefaultResult(id, tl), err |-> "AttributeError"]
  ELSE LET r == Result(id, tl,
                       GetF(resp.root_cause, "Unknown"),
                       GetF(resp.root_cause_category, "Other"),
                       GetF(resp.sentiment, "Neutral"),
                       GetF(resp.summary, "No summary"),
                       GetF(resp.actionable_insight, "NONE"))
       IN IF ValidResult(r)
          THEN [ok |-> TRUE, rec |-> r, err |-> "NONE"]
          ELSE [ok |-> FALSE, rec |-> DefaultResult(id, tl), err |-> "ValidationError"]

\* ---- the two append-only files --------------------------------------------
\* A file is its newline-terminated lines plus the text after the last
\* newline (cur).  A line is a sequence of chunks: an append writes the
\* record in two chunks ("head", then "tail" with the newline), so that two
\* unserialized appends can interleave inside a line; a line that was not
\* written by this program is one "whole" chunk.
EmptyFile == [lines |-> <<>>, cur |-> <<>>]

\* for line in f: the terminated lines, then the unterminated rest if any
ReadLines(f) == IF f.cur = <<>> THEN f.lines ELSE Append(f.lines, f.cur)

WriteHead(f, d) == [f EXCEPT !.cur = Append(@, [part |-> "head", data |-> d])]
WriteTail(f, d) ==
  [lines |-> Append(f.lines, Append(f.cur, [part |-> "tail", data |-> d])),
   cur |-> <<>>]

Garbage ==
  [kind |-> "garbage", id |-> NoId, tl |-> 0, root_cause |-> "ABSENT",
   root_cause_category |-> "ABSENT", sentiment |-> "ABSENT",
   summary |-> "ABSENT", actionable_insight |-> "ABSENT"]

\* A line whose bytes are no text in the encoding the file is opened with.
Undecodable == [Garbage EXCEPT !.kind = "undecodable"]

\* The bytes of the line do not decode.
BadBytes(line) == \E c \in 1..Len(line) : line[c].data.kind = "undecodable"

\* for line in f raises UnicodeDecodeError when the decoder reaches bytes
\* that do not decode.  The iteration is outside the try of the loop body
\* (main.py 30, 126, 148), so the exception leaves the reader and main().
\* A reader that has read k lines can raise when a later line is undecodable:
\* the file is decoded a buffer at a time, so the exception comes with the
\* buffer that holds the bytes, at that line or at a line before it.
ReadRaisesAfter(f, k) ==
  \E n \in (k + 1)..Len(ReadLines(f)) : BadBytes(ReadLines(f)[n])

\* A reader of the whole file raises.
ReadRaises(f) == ReadRaisesAfter(f, 0)

\* json.loads(line): the decoded value, or Garbage for a JSONDecodeError.
\* kind "rec": an object AnalysisResult(**data) accepts; "obj": any other
\* JSON object; "nonobj": JSON that is no object.
Parse(line) ==
  IF Len(line) = 1 /\ line[1].part = "whole" THEN line[1].data
  ELSE IF /\ Len(line) = 2
          /\ line[1].part = "head" /\ line[2].part = "tail"
          /\ line[1].data = line[2].data
       THEN line[1].data
       ELSE Garbage

IsObject(d) == d.kind \in {"rec", "obj"}

\* data.get(key) of a decoded object: None for a missing key
GetCategory(d) ==
  IF d.root_cause_category = "ABSENT" THEN "NONE" ELSE d.root_cause_category

\* load_processed_ids: the ids of the lines that decode to an object; every
\* other line raises inside the try and is passed over.
load_processed_ids(lines) ==
  { Parse(lines[n]).id : n \in { m \in 1..Len(lines) : IsObject(Parse(lines[m])) } }

\* Faulty variant of FilterToProcess: the checkpoint file is not consulted.
FilterToProcess_NoFilter(transcripts, ids) == transcripts

\* to_process = [t for t in transcripts if t.id not in processed_ids]
FilterToProcess(transcripts, ids) ==
  SelectSeq(transcripts, LAMBDA t : t \notin ids)

\* Pass 1 (main.py 120-132).  A line is counted when json.loads returns an
\* object (data.get exists) and unique_categories.add accepts its category:
\* a category that is a JSON list or object raises TypeError before
\* total_processed += 1, and the bare except passes over the line.
Pass1Counts(d) == IsObject(d) /\ d.root_cause_category # "UNHASHABLE"

Pass1Categories(lines) ==
  { GetCategory(Parse(lines[n])) :
      n \in { m \in 1..Len(lines) : Pass1Counts(Parse(lines[m])) } }
Pass1Total(lines) ==
  Cardinality({ m \in 1..Len(lines) : Pass1Counts(Parse(lines[m])) })

\* Pass 2 (main.py 141-169): one line applied to the running aggregate.
Aggregate0 ==
  [root_cause_counts |-> EmptyDict, sentiment_counts |-> EmptyDict,
   sample_summaries |-> <<>>]

\* Faulty variant of Pass2Line: every record is sampled, however many were
\* sampled before.
Pass2Line_NoCap(agg, line, mapping) ==
  LET d == Parse(line)
      raw == d.root_cause_category
      cat == IF raw \in DOMAIN mapping THEN mapping[raw] ELSE raw
  IN IF d.kind # "rec" THEN agg
     ELSE IF cat = "UNHASHABLE" THEN agg
     ELSE [root_cause_counts |->
             Put(agg.root_cause_counts, cat, Get(agg.root_cause_counts, cat, 0) + 1),
           sentiment_counts |->
             Put(agg.sentiment_counts, d.sentiment,
                 Get(agg.sentiment_counts, d.sentiment, 0) + 1),
           sample_summaries |->
             Append(agg.sample_summaries,
                    [cat |-> cat, root_cause |-> d.root_cause,
                     steps |-> Min(d.tl, TimelineCut)])]

\* Faulty variant of Pass2Line: the record is counted under its raw category.
Pass2Line_Raw(agg, line, mapping) ==
  LET d == Parse(line)
      cat == d.root_cause_category
  IN IF d.kind # "rec" THEN agg
     ELSE [root_cause_counts |->
             Put(agg.root_cause_counts, cat, Get(agg.root_cause_counts, cat, 0) + 1),
           sentiment_counts |->
             Put(agg.sentiment_counts, d.sentiment,
                 Get(agg.sentiment_counts, d.sentiment, 0) + 1),
           sample_summaries |->
             IF Len(agg.sample_summaries) < SampleCap
             THEN Append(agg.sample_summaries,
                         [cat |-> cat, root_cause |-> d.root_cause,
                          steps |-> Min(d.tl, TimelineCut)])
             ELSE agg.sample_summaries]

Pass2Line(agg, line, mapping) ==
  LET d == Parse(line)
      raw == d.root_cause_category
      cat == IF raw \in DOMAIN mapping THEN mapping[raw] ELSE raw
  IN IF d.kind # "rec" THEN agg                  \* json.loads / AnalysisResult raise
     ELSE IF cat = "UNHASHABLE" THEN agg         \* root_cause_counts.get raises
     ELSE [root_cause_counts |->
             Put(agg.root_cause_counts, cat, Get(agg.root_cause_counts, cat, 0) + 1),
           sentiment_counts |->
             Put(agg.sentiment_counts, d.sentiment,
                 Get(agg.sentiment_counts, d.sentiment, 0) + 1),
           sample_summaries |->
             IF Len(agg.sample_summaries) < SampleCap
             THEN Append(agg.sample_summaries,
                         [cat |-> cat, root_cause |-> d.root_cause,
                          steps |-> Min(d.tl, TimelineCut)])
             ELSE agg.sample_summaries]

\* ---- NormalizationAgent --------------------------------------------------
Canonical == "ETA Exceeded"

NormOther(k) == [kind |-> k, map |-> EmptyDict]
NormObj(m) == [kind |-> "OBJ", map |-> m]

Range(s) == { s[n] : n \in 1..Len(s) }

\* The answers of the inference service to one batch: None, "", text that is
\* no JSON, a JSON scalar, the empty JSON list, or a JSON object: the
\* identity on the batch, every key to one canonical label, one key left
\* out, a key that was not asked for, an unhashable value.
NormResponses(batch) ==
  LET keys == Range(batch) \ {"NONE"}
  IN { NormOther("NONE"), NormOther("EMPTY"), NormOther("GARBAGE"),
       NormOther("SCALAR"), NormOther("EMPTYLIST"),
       NormObj([c \in keys |-> c]),
       NormObj([c \in keys |-> Canonical]),
       NormObj([c \in keys \ {batch[1]} |-> Canonical]),
       NormObj([c \in keys \cup {"Extra"} |-> c]),
       NormObj([c \in keys |-> "UNHASHABLE"]) }

\* One iteration of the batch loop (agents.py 83-116): the mapping after the
\* batch, or raised = TRUE when mapping.update(batch_mapping) raises.
NormBatch(mapping, batch, resp) ==
  IF resp.kind \in {"NONE", "EMPTY", "GARBAGE"}
  THEN [raised |-> FALSE,
        mapping |-> Update(mapping, [c \in Range(batch) |-> c])]
  ELSE IF resp.kind = "SCALAR"
  THEN [raised |-> TRUE, mapping |-> mapping]
  ELSE IF resp.kind = "EMPTYLIST"
  THEN [raised |-> FALSE, mapping |-> mapping]
  ELSE [raised |-> FALSE, mapping |-> Update(mapping, resp.map)]

\* batch = categories[i:i + batch_size], i counted from 0
BatchAt(categories, i) ==
  SubSeq(categories, i + 1, Min(i + batch_size, Len(categories)))

\* ---- the state -----------------------------------------------------------
VARIABLES
  input,             \* transcripts: the ids of the input file, in order
  max_workers,       \* config.MAX_WORKERS
  run,               \* number of the current invocation of main()
  pc,                \* position of the main thread
  ckpt,              \* config.CHECKPOINT_FILE
  flog,              \* config.FAILURES_FILE
  lock,              \* checkpoint_lock: 0, or the task that holds it
  processed_ids,
  to_process,
  base,              \* lines of the two files when this invocation began
  task,              \* the futures: task[k] runs task_wrapper(to_process[k])
  completed,         \* futures as_completed has yielded (i + 1)
  analysis_results,
  total_processed,
  unique_categories,
  norm,              \* normalize_categories: categories, i, mapping, answers
  category_mapping,
  agg,               \* root_cause_counts, sentiment_counts, sample_summaries
  lines_read,        \* lines of the checkpoint file pass 2 has read
  report,            \* what this invocation wrote to args.output
  formatted_summaries, \* the case summaries put into the aggregation prompt
  ending             \* how the final-report step of this invocation ended

files == <<ckpt, flog>>
sched == <<lock, task, completed, analysis_results>>
post == <<total_processed, unique_categories, norm, category_mapping, agg,
         lines_read, ending>>
vars == <<input, max_workers, run, pc, ckpt, flog, lock, processed_ids,
          to_process, base, task, completed, analysis_results, total_processed,
          unique_categories, norm, category_mapping, agg, lines_read, report,
          formatted_summaries, ending>>

\* Input files up to renaming of the ids: the k-th new id is k.  Ids may
\* repeat: nothing in load_transcripts makes them unique.
Inputs ==
  { s \in UNION { [1..n -> Ids] : n \in 0..MaxItems } :
      \A n \in 1..Len(s) :
        \A v \in 1..(s[n] - 1) : \E m \in 1..(n - 1) : s[m] = v }

\* Lengths of the timeline extract_timeline returns (0: the empty list).
Timelines == {0, 4}

\* The report file: absent, or what was written and by which invocation.
NoReport ==
  [written |-> FALSE, by |-> 0, total |-> 0, root_cause_distribution |-> EmptyDict,
   sentiment_distribution |-> EmptyDict, narrative |-> "EMPTY"]

\* normalize_categories is not running.
NormIdle == [categories |-> <<>>, i |-> 0, mapping |-> EmptyDict, answers |-> <<>>]

RunReset ==
  /\ lock = 0
  /\ processed_ids = {}
  /\ to_process = <<>>
  /\ base = [ckpt |-> 0, flog |-> 0]
  /\ task = <<>>
  /\ completed = 0
  /\ analysis_results = <<>>
  /\ total_processed = 0
  /\ unique_categories = {}
  /\ norm = NormIdle
  /\ category_mapping = EmptyDict
  /\ agg = Aggregate0
  /\ lines_read = 0
  /\ ending = "none"
  /\ report = NoReport
  /\ formatted_summaries = <<>>

\* A first invocation: neither file exists yet.
Init ==
  /\ input \in Inputs
  /\ max_workers \in 1..MaxWorkersCfg
  /\ run = 1
  /\ pc = "start"
  /\ ckpt = EmptyFile
  /\ flog = EmptyFile
  /\ RunReset

\* ---- main(), up to the submission of the tasks (main.py 59-109) ----------
NoResponse == RcOther("NOT_CALLED")
QueuedTask ==
  [st |-> "queued", tl |-> 0, resp |-> NoResponse, rec |-> Garbage, err |-> "NONE"]

\* os.makedirs raises (main.py 66-67): nothing catches it, main() ends with
\* a traceback before any file is opened.
MakedirsFails ==
  /\ pc = "start"
  /\ pc' = "setup_raised"
  /\ UNCHANGED <<input, max_workers, run, files, sched, processed_ids,
                 to_process, base, post, report, formatted_summaries>>

\* BedrockClient() raises: main prints and returns (main.py 70-74).
SetupFails ==
  /\ pc = "start"
  /\ pc' = "setup_failed"
  /\ UNCHANGED <<input, max_workers, run, files, sched, processed_ids,
                 to_process, base, post, report, formatted_summaries>>

\* Load, filter against the checkpoint file, submit every remaining item;
\* or load_processed_ids raises out of main() (main.py 87).
StartRun ==
  /\ pc = "start"
  /\ IF ReadRaises(ckpt)
     THEN /\ pc' = "read_raised"
          /\ UNCHANGED <<processed_ids, to_process, base, task>>
     ELSE /\ processed_ids' = load_processed_ids(ReadLines(ckpt))
          /\ to_process' = FilterToProcess(input, processed_ids')
          /\ base' = [ckpt |-> Len(ReadLines(ckpt)), flog |-> Len(ReadLines(flog))]
          /\ task' = [k \in 1..Len(to_process') |-> QueuedTask]
          /\ pc' = IF to_process' = <<>> THEN "pass1" ELSE "collect"
  /\ UNCHANGED <<input, max_workers, run, files, lock, completed,
                 analysis_results, post, report, formatted_summaries>>

\* ---- the thread pool (main.py 96-109) -------------------------------------
Tasks == DOMAIN task

\* The work items a worker thread is running: taken from the queue, and
\* task_wrapper has not returned.
Running == { k \in Tasks : task[k].st \notin {"queued", "done", "collected"} }

\* Faulty variant of TaskStart: a thread per item, whatever max_workers is.
TaskStart_Unbounded(k) ==
  /\ task[k].st = "queued"
  /\ task' = [task EXCEPT ![k].st = "stage1"]
  /\ UNCHANGED <<input, max_workers, run, pc, files, lock, processed_ids,
                 to_process, base, completed, analysis_results, post, report,
                 formatted_summaries>>

\* A free worker thread takes the oldest queued work item.
TaskStart(k) ==
  /\ task[k].st = "queued"
  /\ \A j \in 1..(k - 1) : task[j].st # "queued"
  /\ Cardinality(Running) < max_workers
  /\ task' = [task EXCEPT ![k].st = "stage1"]
  /\ UNCHANGED <<input, max_workers, run, pc, files, lock, processed_ids,
                 to_process, base, completed, analysis_results, post, report,
                 formatted_summaries>>

\* Faulty variant of Stage1: an empty timeline ends the task without any record.
Stage1_Swallow(k) ==
  /\ task[k].st = "stage1"
  /\ \E tl \in Timelines :
       task' = [task EXCEPT ![k] =
                  IF tl = 0
                  THEN [@ EXCEPT !.st = "returning", !.err = "Failed to extract timeline"]
                  ELSE [@ EXCEPT !.st = "stage2", !.tl = tl]]
  /\ UNCHANGED <<input, max_workers, run, pc, files, lock, processed_ids,
                 to_process, base, completed, analysis_results, post, report,
                 formatted_summaries>>

\* process_single_transcript, stage 1: extract_timeline returns; an empty
\* timeline raises Exception("Failed to extract timeline").
Stage1(k) ==
  /\ task[k].st = "stage1"
  /\ \E tl \in Timelines :
       task' = [task EXCEPT ![k] =
                  IF tl = 0
                  THEN [@ EXCEPT !.st = "lf_lock", !.err = "Failed to extract timeline"]
                  ELSE [@ EXCEPT !.st = "stage2", !.tl = tl]]
  /\ UNCHANGED <<input, max_workers, run, pc, files, lock, processed_ids,
                 to_process, base, completed, analysis_results, post, report,
                 formatted_summaries>>

\* Stage 2: analyze_root_cause returns a result or raises.
Stage2(k) ==
  /\ task[k].st = "stage2"
  /\ \E resp \in RcResponses :
       LET r == analyze_root_cause(to_process[k], task[k].tl, resp)
       IN task' = [task EXCEPT ![k] =
                     IF r.ok
                     THEN [@ EXCEPT !.st = "sc_lock", !.resp = resp, !.rec = r.rec]
                     ELSE [@ EXCEPT !.st = "lf_lock", !.resp = resp, !.err = r.err]]
  /\ UNCHANGED <<input, max_workers, run, pc, files, lock, processed_ids,
                 to_process, base, completed, analysis_results, post, report,
                 formatted_summaries>>

\* Faulty variant of LockFree: the appends are not guarded.
LockFree_Always == TRUE

\* with checkpoint_lock: the lock is free
LockFree == lock = 0

FailureRecord(id, err) == [id |-> id, error |-> err]

\* Faulty variant of SaveBegin: the file is opened for writing, not for append.
SaveBegin_Truncate(k) ==
  /\ task[k].st = "sc_lock"
  /\ LockFree
  /\ lock' = k
  /\ ckpt' = WriteHead(EmptyFile, task[k].rec)
  /\ task' = [task EXCEPT ![k].st = "sc_write"]
  /\ UNCHANGED <<input, max_workers, run, pc, flog, processed_ids,
                 to_process, base, completed, analysis_results, post, report,
                 formatted_summaries>>

\* save_checkpoint: take the lock, open for append, write.
SaveBegin(k) ==
  /\ task[k].st = "sc_lock"
  /\ LockFree
  /\ lock' = k
  /\ ckpt' = WriteHead(ckpt, task[k].rec)
  /\ task' = [task EXCEPT ![k].st = "sc_write"]
  /\ UNCHANGED <<input, max_workers, run, pc, flog, processed_ids,
                 to_process, base, completed, analysis_results, post, report,
                 formatted_summaries>>

\* save_checkpoint: the rest of the line, close, release the lock; the
\* worker is still inside task_wrapper.
SaveEnd(k) ==
  /\ task[k].st = "sc_write"
  /\ ckpt' = WriteTail(ckpt, task[k].rec)
  /\ lock' = 0
  /\ task' = [task EXCEPT ![k].st = "returning"]
  /\ UNCHANGED <<input, max_workers, run, pc, flog, processed_ids,
                 to_process, base, completed, analysis_results, post, report,
                 formatted_summaries>>

\* log_failure: take the lock, open for append, write.
FailBegin(k) ==
  /\ task[k].st = "lf_lock"
  /\ LockFree
  /\ lock' = k
  /\ flog' = WriteHead(flog, FailureRecord(to_process[k], task[k].err))
  /\ task' = [task EXCEPT ![k].st = "lf_write"]
  /\ UNCHANGED <<input, max_workers, run, pc, ckpt, processed_ids,
                 to_process, base, completed, analysis_results, post, report,
                 formatted_summaries>>

\* Faulty variant of FailEnd: the lock is not released after the failure record.
FailEnd_KeepLock(k) ==
  /\ task[k].st = "lf_write"
  /\ flog' = WriteTail(flog, FailureRecord(to_process[k], task[k].err))
  /\ task' = [task EXCEPT ![k].st = "returning"]
  /\ UNCHANGED <<input, max_workers, run, pc, ckpt, lock, processed_ids,
                 to_process, base, completed, analysis_results, post, report,
                 formatted_summaries>>

\* log_failure: the rest of the line, close, release the lock; the worker
\* is still inside task_wrapper.
FailEnd(k) ==
  /\ task[k].st = "lf_write"
  /\ flog' = WriteTail(flog, FailureRecord(to_process[k], task[k].err))
  /\ lock' = 0
  /\ task' = [task EXCEPT ![k].st = "returning"]
  /\ UNCHANGED <<input, max_workers, run, pc, ckpt, processed_ids,
                 to_process, base, completed, analysis_results, post, report,
                 formatted_summaries>>

\* task_wrapper returns res (main.py 100) or None (main.py 104): the future
\* is done and the worker thread is free for the next work item.
Return(k) ==
  /\ task[k].st = "returning"
  /\ task' = [task EXCEPT ![k].st = "done"]
  /\ UNCHANGED <<input, max_workers, run, pc, files, lock, processed_ids,
                 to_process, base, completed, analysis_results, post, report,
                 formatted_summaries>>

\* Faulty variant of Collect: post-processing begins after the first future
\* that completes.
Collect_First(k) ==
  /\ pc = "collect"
  /\ task[k].st = "done"
  /\ task' = [task EXCEPT ![k].st = "collected"]
  /\ completed' = completed + 1
  /\ analysis_results' =
       IF task[k].err = "NONE" THEN Append(analysis_results, task[k].rec.id)
       ELSE analysis_results
  /\ pc' = "pass1"
  /\ UNCHANGED <<input, max_workers, run, files, lock, processed_ids,
                 to_process, base, post, report, formatted_summaries>>

\* as_completed yields a finished future (main.py 110-115); after the last
\* one the executor is shut down and post-processing begins.
Collect(k) ==
  /\ pc = "collect"
  /\ task[k].st = "done"
  /\ task' = [task EXCEPT ![k].st = "collected"]
  /\ completed' = completed + 1
  /\ analysis_results' =
       IF task[k].err = "NONE" THEN Append(analysis_results, task[k].rec.id)
       ELSE analysis_results
  /\ pc' = IF completed' = Len(to_process) THEN "pass1" ELSE "collect"
  /\ UNCHANGED <<input, max_workers, run, files, lock, processed_ids,
                 to_process, base, post, report, formatted_summaries>>

\* ---- post-processing (main.py 117-201) -------------------------------------
\* Pass 1: the distinct categories and the number of decodable objects.
Pass1 ==
  /\ pc = "pass1"
  /\ IF ReadRaises(ckpt)
     THEN /\ pc' = "read_raised"
          /\ UNCHANGED <<unique_categories, total_processed>>
     ELSE /\ unique_categories' = Pass1Categories(ReadLines(ckpt))
          /\ total_processed' = Pass1Total(ReadLines(ckpt))
          /\ pc' = "normalize"
  /\ UNCHANGED <<input, max_workers, run, files, sched, processed_ids,
                 to_process, base, norm, category_mapping, agg, lines_read, report,
                 formatted_summaries, ending>>

\* list(unique_categories): the elements in some order
Orderings(S) ==
  { s \in [1..Cardinality(S) -> S] : \A x \in S : \E n \in DOMAIN s : s[n] = x }

\* Normalization (main.py 135-138): normalize_categories is called with
\* list(unique_categories) unless the set is empty.
NormalizeCall ==
  /\ pc = "normalize"
  /\ IF unique_categories = {}
     THEN /\ pc' = "pass2"
          /\ UNCHANGED norm
     ELSE \E categories \in Orderings(unique_categories) :
            /\ norm' = [NormIdle EXCEPT !.categories = categories]
            /\ pc' = "norm_loop"
  /\ UNCHANGED <<input, max_workers, run, files, sched, processed_ids,
                 to_process, base, total_processed, unique_categories,
                 category_mapping, agg, lines_read, report, formatted_summaries, ending>>

\* One iteration of the batch loop (agents.py 83-116).  The call is outside
\* any try in main(), so an exception ends main() with a traceback.
NormalizeBatch ==
  /\ pc = "norm_loop"
  /\ norm.i < Len(norm.categories)
  /\ \E resp \in NormResponses(BatchAt(norm.categories, norm.i)) :
       LET r == NormBatch(norm.mapping, BatchAt(norm.categories, norm.i), resp)
       IN /\ norm' = [norm EXCEPT !.mapping = r.mapping,
                                  !.i = IF r.raised THEN @ ELSE @ + batch_size,
                                  !.answers = Append(@, resp)]
          /\ pc' = IF r.raised THEN "crashed" ELSE "norm_loop"
  /\ UNCHANGED <<input, max_workers, run, files, sched, processed_ids,
                 to_process, base, total_processed, unique_categories,
                 category_mapping, agg, lines_read, report, formatted_summaries, ending>>

\* return mapping (agents.py 118): the locals of the call are gone.
NormalizeReturn ==
  /\ pc = "norm_loop"
  /\ norm.i >= Len(norm.categories)
  /\ category_mapping' = norm.mapping
  /\ norm' = NormIdle
  /\ pc' = "pass2"
  /\ UNCHANGED <<input, max_workers, run, files, sched, processed_ids,
                 to_process, base, total_processed, unique_categories,
                 agg, lines_read, report, formatted_summaries, ending>>

\* Pass 2: one iteration of the loop over the lines of the file (main.py
\* 148-169): the next line is applied to the aggregate, or the iteration
\* raises out of main() because the decoder has reached bytes that do not
\* decode, or the loop ends.  A line that decodes is either already in the
\* buffer (and is aggregated) or decoded together with the bad bytes (and the
\* iteration raises before it).
Pass2Step ==
  /\ pc = "pass2"
  /\ \/ /\ ReadRaisesAfter(ckpt, lines_read)
        /\ pc' = "read_raised"
        /\ UNCHANGED <<agg, lines_read>>
     \/ /\ lines_read < Len(ReadLines(ckpt))
        /\ ~BadBytes(ReadLines(ckpt)[lines_read + 1])
        /\ agg' = Pass2Line(agg, ReadLines(ckpt)[lines_read + 1], category_mapping)
        /\ lines_read' = lines_read + 1
        /\ pc' = "pass2"
     \/ /\ lines_read = Len(ReadLines(ckpt))
        /\ pc' = "report"
        /\ UNCHANGED <<agg, lines_read>>
  /\ UNCHANGED <<input, max_workers, run, files, sched, processed_ids,
                 to_process, base, total_processed, unique_categories, norm,
                 category_mapping, report, formatted_summaries, ending>>

\* The answers of the service to the aggregation prompt, by what
\* aggregate_results does with them.
AggResponses == {"NONE", "EMPTY", "GARBAGE", "NONOBJ", "OBJ_EMPTY", "OBJ_LISTS", "OBJ_BADTYPE"}

\* formatted_summaries = "\n".join(sample_summaries[:30])
FormattedSummaries(sample_summaries) ==
  SubSeq(sample_summaries, 1, Min(PromptCap, Len(sample_summaries)))

\* AggregationAgent.aggregate_results: the report, or raised.
aggregate_results(root_cause_counts, sentiment_counts, sample_summaries, total, resp) ==
  LET rep(narr) ==
        [written |-> TRUE, by |-> 0, total |-> total,
         root_cause_distribution |-> root_cause_counts,
         sentiment_distribution |-> sentiment_counts,
         narrative |-> narr]
  IN IF resp \in {"NONE", "EMPTY", "GARBAGE", "OBJ_EMPTY"}
     THEN [raised |-> FALSE, report |-> rep("EMPTY")]
     ELSE IF resp = "OBJ_LISTS"
     THEN [raised |-> FALSE, report |-> rep("LISTS")]
     ELSE [raised |-> TRUE, report |-> rep("EMPTY")]

\* Final report (main.py 171-201).  The prompt is sent before the answer is
\* known, so it is recorded whether or not aggregate_results raises.
Report ==
  /\ pc = "report"
  /\ IF total_processed > 0
     THEN /\ formatted_summaries' = FormattedSummaries(agg.sample_summaries)
          /\ \E resp \in AggResponses :
               LET r == aggregate_results(agg.root_cause_counts, agg.sentiment_counts,
                                          agg.sample_summaries, total_processed, resp)
               IN IF r.raised
                  THEN /\ ending' = "error"
                       /\ UNCHANGED report
                  ELSE /\ ending' = "saved"
                       /\ report' = [r.report EXCEPT !.by = run]
     ELSE /\ ending' = "nothing"
          /\ UNCHANGED <<report, formatted_summaries>>
  /\ pc' = "done"
  /\ UNCHANGED <<input, max_workers, run, files, sched, processed_ids,
                 to_process, base, total_processed, unique_categories, norm,
                 category_mapping, agg, lines_read>>

\* The exit status of the process (main.py 203-204): main() is called at
\* module level and nothing calls sys.exit, so the status is 0 whenever
\* main() returns and not 0 when an exception leaves it or the process is
\* killed.
Ended ==
  pc \in {"done", "setup_failed", "setup_raised", "read_raised", "crashed", "killed"}
ExitStatus ==
  IF pc \in {"setup_raised", "read_raised", "crashed", "killed"} THEN 1 ELSE 0

\* main() is invoked again with the same input and the same files.
Rerun ==
  /\ Ended
  /\ run < MaxRuns
  /\ run' = run + 1
  /\ pc' = "start"
  /\ lock' = 0
  /\ processed_ids' = {}
  /\ to_process' = <<>>
  /\ base' = [ckpt |-> 0, flog |-> 0]
  /\ task' = <<>>
  /\ completed' = 0
  /\ analysis_results' = <<>>
  /\ total_processed' = 0
  /\ unique_categories' = {}
  /\ norm' = NormIdle
  /\ category_mapping' = EmptyDict
  /\ agg' = Aggregate0
  /\ lines_read' = 0
  /\ ending' = "none"
  /\ report' = NoReport
  /\ formatted_summaries' = <<>>
  /\ UNCHANGED <<input, max_workers, files>>

\* One step of one invocation of main().
RunStep ==
  \/ MakedirsFails
  \/ SetupFails
  \/ StartRun
  \/ \E k \in Tasks : TaskStart(k)
  \/ \E k \in Tasks : Stage1(k)
  \/ \E k \in Tasks : Stage2(k)
  \/ \E k \in Tasks : SaveBegin(k)
  \/ \E k \in Tasks : SaveEnd(k)
  \/ \E k \in Tasks : FailBegin(k)
  \/ \E k \in Tasks : FailEnd(k)
  \/ \E k \in Tasks : Return(k)
  \/ \E k \in Tasks : Collect(k)
  \/ Pass1
  \/ NormalizeCall
  \/ NormalizeBatch
  \/ NormalizeReturn
  \/ Pass2Step
  \/ Report

Next ==
  \/ RunStep
  \/ Rerun

Spec == Init /\ [][Next]_vars

\* ---- invocations that write the same report file ----------------------------
\* main() is invoked again with the same input, the same files and the same
\* --output path: the report file of the earlier invocation is still there.
RerunSameOutput ==
  /\ Ended
  /\ run < MaxRuns
  /\ run' = run + 1
  /\ pc' = "start"
  /\ lock' = 0
  /\ processed_ids' = {}
  /\ to_process' = <<>>
  /\ base' = [ckpt |-> 0, flog |-> 0]
  /\ task' = <<>>
  /\ completed' = 0
  /\ analysis_results' = <<>>
  /\ total_processed' = 0
  /\ unique_categories' = {}
  /\ norm' = NormIdle
  /\ category_mapping' = EmptyDict
  /\ agg' = Aggregate0
  /\ lines_read' = 0
  /\ ending' = "none"
  /\ formatted_summaries' = <<>>
  /\ UNCHANGED <<input, max_workers, files, report>>

NextReplay ==
  \/ RunStep
  \/ RerunSameOutput

SpecReplay == Init /\ [][NextReplay]_vars

\* ---- invocations that can be interrupted -------------------------------------
Front(s) == SubSeq(s, 1, Len(s) - 1)

\* What an append in progress leaves in the file when the process dies: the
\* part already written, or nothing of it.
OnDisk(f, writing) == IF writing THEN {f, [f EXCEPT !.cur = Front(@)]} ELSE {f}

\* The report file between open(args.output, "w") and the end of json.dump
\* (main.py 194-195): it exists and holds no decodable JSON, whatever it held
\* before.
TruncatedReport(by) == [NoReport EXCEPT !.written = TRUE, !.by = by, !.narrative = "TRUNCATED"]

\* The reports this invocation saves when aggregate_results returns (main.py
\* 174-195), one for each answer of the service that does not make it raise.
FinalReports ==
  { [aggregate_results(agg.root_cause_counts, agg.sentiment_counts,
                       agg.sample_summaries, total_processed, resp).report
       EXCEPT !.by = run] :
      resp \in { x \in AggResponses :
                  ~aggregate_results(agg.root_cause_counts, agg.sentiment_counts,
                                     agg.sample_summaries, total_processed, x).raised } }

\* What the report phase leaves of the report file when the process dies:
\* the file as it was (before the open, or with nothing to aggregate, or with
\* aggregate_results raising), the truncated file (inside the with block), or
\* the complete report of this invocation (after the file was closed, before
\* the process has ended with main() returning).
ReportOnDisk(r, by, saving, final) ==
  IF saving THEN {r, TruncatedReport(by)} \cup final ELSE {r}

\* The process is killed (signal, power loss) at any point of an invocation:
\* the threads and everything in memory are gone, the lock with them; the
\* files keep what reached them.
Interrupt ==
  /\ ~Ended
  /\ pc' = "killed"
  /\ ckpt' \in OnDisk(ckpt, lock \in Tasks /\ task[lock].st = "sc_write")
  /\ flog' \in OnDisk(flog, lock \in Tasks /\ task[lock].st = "lf_write")
  /\ lock' = 0
  /\ processed_ids' = {}
  /\ to_process' = <<>>
  /\ base' = [ckpt |-> 0, flog |-> 0]
  /\ task' = <<>>
  /\ completed' = 0
  /\ analysis_results' = <<>>
  /\ total_processed' = 0
  /\ unique_categories' = {}
  /\ norm' = NormIdle
  /\ category_mapping' = EmptyDict
  /\ agg' = Aggregate0
  /\ lines_read' = 0
  /\ ending' = "none"
  /\ formatted_summaries' = <<>>
  /\ report' \in ReportOnDisk(report, run, pc = "report" /\ total_processed > 0,
                            FinalReports)
  /\ UNCHANGED <<input, max_workers, run>>

NextCrash ==
  \/ RunStep
  \/ Interrupt
  \/ Rerun
  \/ RerunSameOutput

SpecCrash == Init /\ [][NextCrash]_vars

\* ---- one invocation against a checkpoint file that already exists --------
\* Lines a checkpoint file can hold that this invocation did not write: two
\* well-formed records, a JSON object that is no AnalysisResult with and
\* without the keys read ({"transcript_id": "2", "root_cause_category":
\* "Eta exceeded"} and {"timeline": 5}), an object whose category is a list
\* ({"transcript_id": "2", "root_cause_category": ["x"]}), JSON that is no
\* object ([1, 2]), text that is no JSON, and bytes that are no text.
ForeignData ==
  { Result(1, 4, "Driver late", "ETA Exceeded", "Negative", "Tow late", "NONE"),
    Result(2, 4, "Unknown", "Other", "Neutral", "Analysis failed", "NONE"),
    [Garbage EXCEPT !.kind = "obj", !.id = 2, !.root_cause_category = "Eta exceeded"],
    [Garbage EXCEPT !.kind = "obj"],
    [Garbage EXCEPT !.kind = "obj", !.id = 2, !.root_cause_category = "UNHASHABLE"],
    [Garbage EXCEPT !.kind = "nonobj"],
    Garbage,
    Undecodable }

ForeignLines == { <<[part |-> "whole", data |-> d]>> : d \in ForeignData }

InitLog ==
  /\ input = <<1, 2>>
  /\ max_workers \in 1..MaxWorkersCfg
  /\ run = 1
  /\ pc = "start"
  /\ \E n \in 0..MaxLogLen : \E ls \in [1..n -> ForeignLines] :
       ckpt = [lines |-> ls, cur |-> <<>>]
  /\ flog = EmptyFile
  /\ RunReset

SpecLog == InitLog /\ [][RunStep]_vars

\* ---- normalize_categories on its own ---------------------------------------
\* The loop entered with n distinct categories "1" .. "n" in a fixed order.
InitNorm ==
  /\ input = <<>>
  /\ max_workers = 1
  /\ run = 1
  /\ pc = "norm_loop"
  /\ ckpt = EmptyFile
  /\ flog = EmptyFile
  /\ lock = 0
  /\ processed_ids = {}
  /\ to_process = <<>>
  /\ base = [ckpt |-> 0, flog |-> 0]
  /\ task = <<>>
  /\ completed = 0
  /\ analysis_results = <<>>
  /\ total_processed = 0
  /\ \E n \in 1..MaxNormCats :
       /\ norm = [NormIdle EXCEPT !.categories = [k \in 1..n |-> ToString(k)]]
       /\ unique_categories = { ToString(k) : k \in 1..n }
  /\ category_mapping = EmptyDict
  /\ agg = Aggregate0
  /\ lines_read = 0
  /\ ending = "none"
  /\ report = NoReport
  /\ formatted_summaries = <<>>

NextNorm ==
  \/ NormalizeBatch
  \/ NormalizeReturn

SpecNorm == InitNorm /\ [][NextNorm]_vars

\* ---- pass 2 and the final report over a long checkpoint file -------------
\* The k-th record of a checkpoint file written by earlier invocations; the
\* root cause tells the records apart.
SampleRecord(k) ==
  Result(k, 4, ToString(k), IF k % 2 = 0 THEN "Eta exceeded" ELSE Canonical,
         "Negative", "Tow late", "NONE")

\* The state before pass 2 of an invocation with nothing to process, over a
\* file of n lines of which at most one (line g) is no JSON.
InitSample ==
  /\ input = <<>>
  /\ max_workers = 1
  /\ run = 1
  /\ pc = "pass2"
  /\ \E n \in 0..MaxSampleLog : \E g \in 0..n :
       /\ ckpt = [lines |-> [k \in 1..n |->
                     <<[part |-> "whole",
                        data |-> IF k = g THEN Garbage ELSE SampleRecord(k)]>>],
                  cur |-> <<>>]
       /\ base = [ckpt |-> n, flog |-> 0]
  /\ flog = EmptyFile
  /\ lock = 0
  /\ processed_ids = load_processed_ids(ReadLines(ckpt))
  /\ to_process = <<>>
  /\ task = <<>>
  /\ completed = 0
  /\ analysis_results = <<>>
  /\ total_processed = Pass1Total(ReadLines(ckpt))
  /\ unique_categories = Pass1Categories(ReadLines(ckpt))
  /\ norm = NormIdle
  /\ category_mapping \in
       { [c \in unique_categories |-> c], [c \in unique_categories |-> Canonical],
         EmptyDict }
  /\ agg = Aggregate0
  /\ lines_read = 0
  /\ ending = "none"
  /\ report = NoReport
  /\ formatted_summaries = <<>>

NextSample ==
  \/ Pass2Step
  \/ Report

SpecSample == InitSample /\ [][NextSample]_vars

\* ---- properties ------------------------------------------------------------
UniqueIds(seq) ==
  \A m, n \in 1..Len(seq) : m # n => seq[m] # seq[n]

\* A line that is one whole record written by one append.
WholeAppend(line) ==
  /\ Len(line) = 2
  /\ line[1].part = "head" /\ line[2].part = "tail"
  /\ line[1].data = line[2].data

\* Positions of the checkpoint lines that decode to an object with id x.
CkptLinesOf(x) ==
  { n \in 1..Len(ckpt.lines) :
      Parse(ckpt.lines[n]).kind \in {"rec", "obj"} /\ Parse(ckpt.lines[n]).id = x }

\* Positions of the lines this invocation appended for id x.
NewCkptOf(x) == { n \in CkptLinesOf(x) : n > base.ckpt }
NewFlogOf(x) ==
  { n \in (base.flog + 1)..Len(flog.lines) :
      WholeAppend(flog.lines[n]) /\ flog.lines[n][1].data.id = x }

TasksOf(x) == { k \in Tasks : to_process[k] = x }

\* Nothing has been appended since the filtering of this invocation.
JustFiltered ==
  \/ pc = "collect" /\ \A k \in Tasks : task[k].st = "queued"
  \/ pc = "pass1" /\ to_process = <<>>

\* The executor has been shut down: every future was yielded.
SchedulerDone == pc \in {"pass1", "normalize", "pass2", "report", "done", "crashed"}

\* C1: idempotent resume.  With unique input ids no id ever has two decodable
\* checkpoint lines, over any number of invocations; and when an invocation
\* has filtered, to_process holds exactly the input items whose id has no
\* decodable line in the checkpoint file, each once.
C1_IdempotentResume ==
  /\ UniqueIds(input) => \A x \in Ids : Cardinality(CkptLinesOf(x)) <= 1
  /\ JustFiltered =>
       /\ \A k \in Tasks : CkptLinesOf(to_process[k]) = {}
       /\ \A n \in 1..Len(input) :
            CkptLinesOf(input[n]) = {} => \E k \in Tasks : to_process[k] = input[n]
       /\ Len(to_process) =
            Cardinality({ n \in 1..Len(input) : CkptLinesOf(input[n]) = {} })

\* A second invocation that finds one item checkpointed and one to retry.
C1_Witness ==
  /\ run = 2 /\ JustFiltered /\ UniqueIds(input)
  /\ Len(input) = 2 /\ Len(to_process) = 1
  /\ Cardinality(CkptLinesOf(input[1])) + Cardinality(CkptLinesOf(input[2])) = 1

\* C2: when the scheduler has completed, every item dispatched in this
\* invocation has exactly one outcome: for every id, the checkpoint lines
\* plus the failure lines appended for it are as many as the tasks run for it,
\* so an item with a task of its own has one line in one of the two files.
C2_ExactlyOneOutcome ==
  SchedulerDone =>
    /\ \A x \in Ids :
         Cardinality(NewCkptOf(x)) + Cardinality(NewFlogOf(x)) = Cardinality(TasksOf(x))
    /\ (Len(ckpt.lines) - base.ckpt) + (Len(flog.lines) - base.flog) = Len(to_process)

\* Two items dispatched, one checkpointed and the other logged as a failure.
C2_Witness ==
  /\ SchedulerDone /\ Len(to_process) = 2 /\ UniqueIds(to_process)
  /\ \E x, y \in Ids :
       /\ Cardinality(NewCkptOf(x)) = 1 /\ NewFlogOf(x) = {}
       /\ Cardinality(NewFlogOf(y)) = 1 /\ NewCkptOf(y) = {}

\* Item k got an empty timeline and every other item succeeded.
OnlyFails(k) ==
  /\ task[k].err = "Failed to extract timeline"
  /\ \A j \in Tasks \ {k} : task[j].err = "NONE"

\* C3: failure isolation.  If exactly one item k gets an empty timeline and
\* the others succeed, then for every concurrency limit and interleaving the
\* invocation ends with one failure line, for k, and one checkpoint line for
\* each other item; and the lock is held only by a task that is writing, so a
\* failed item leaves no other item blocked.
C3_FailureIsolation ==
  /\ \A k \in Tasks :
       SchedulerDone /\ OnlyFails(k) =>
         /\ Len(flog.lines) = base.flog + 1
         /\ flog.lines[Len(flog.lines)] =
              << [part |-> "head",
                  data |-> FailureRecord(to_process[k], "Failed to extract timeline")],
                 [part |-> "tail",
                  data |-> FailureRecord(to_process[k], "Failed to extract timeline")] >>
         /\ Len(ckpt.lines) = base.ckpt + Len(to_process) - 1
         /\ \A j \in Tasks \ {k} :
              \E n \in (base.ckpt + 1)..Len(ckpt.lines) :
                /\ WholeAppend(ckpt.lines[n])
                /\ ckpt.lines[n][1].data = task[j].rec
                /\ task[j].rec.id = to_process[j]
  /\ lock # 0 => lock \in Tasks /\ task[lock].st \in {"sc_write", "lf_write"}

\* Two workers, two items: the first fails in stage 1, the second is
\* checkpointed.
C3_Witness ==
  /\ SchedulerDone /\ max_workers = 2 /\ Len(to_process) = 2
  /\ OnlyFails(1)
  /\ Len(ckpt.lines) = base.ckpt + 1

\* C4: bounded concurrency.  The items taken by a worker whose task_wrapper
\* has not returned are never more than max_workers.
C4_BoundedConcurrency == Cardinality(Running) <= max_workers

\* The pool is full while an item waits in the queue: a worker has released
\* the lock and has not yet returned from task_wrapper.
C4_Witness ==
  /\ Cardinality(Running) = max_workers
  /\ \E k \in Tasks : task[k].st = "queued"
  /\ \E k \in Tasks : task[k].st = "returning" /\ lock = 0

\* C5: serialized appends.  At most one task is inside an append to either
\* file, the text after the last newline of a file is at most the head of the
\* one append in progress, and every line of either file is one whole record
\* of one append.
C5_SerializedAppends ==
  /\ Cardinality({ k \in Tasks : task[k].st \in {"sc_write", "lf_write"} }) <= 1
  /\ Len(ckpt.cur) + Len(flog.cur) <= 1
  /\ \A n \in 1..Len(ckpt.lines) : WholeAppend(ckpt.lines[n])
  /\ \A n \in 1..Len(flog.lines) : WholeAppend(flog.lines[n])

\* One task is writing while the other waits for the lock.
C5_Witness ==
  \E k, j \in Tasks :
    /\ task[k].st \in {"sc_write", "lf_write"}
    /\ task[j].st \in {"sc_lock", "lf_lock"}

\* C6: aggregation conservation.  Once pass 2 has run, the total counted in
\* pass 1 equals the sum of the root-cause counts and the sum of the
\* sentiment counts.
C6_AggregationConservation ==
  pc \in {"report", "done"} =>
    /\ SumF(agg.root_cause_counts) = total_processed
    /\ SumF(agg.sentiment_counts) = total_processed

\* C7: fail-soft stage 2.  A task whose root-cause call got no response, an
\* empty response or text that is no JSON holds the default record
\* (Unknown / Other / Neutral / Analysis failed / no insight) for its item and
\* timeline, is never routed to the failure log, and once it has finished its
\* record is a line of the checkpoint file appended by this invocation.
C7_FailSoftStage2 ==
  \A k \in Tasks :
    task[k].resp.kind \in {"NONE", "EMPTY", "GARBAGE"} =>
      /\ task[k].st \in {"sc_lock", "sc_write", "returning", "done", "collected"}
      /\ task[k].err = "NONE"
      /\ task[k].rec.kind = "rec"
      /\ task[k].rec.id = to_process[k]
      /\ task[k].rec.tl = task[k].tl
      /\ task[k].rec.root_cause = "Unknown"
      /\ task[k].rec.root_cause_category = "Other"
      /\ task[k].rec.sentiment = "Neutral"
      /\ task[k].rec.summary = "Analysis failed"
      /\ task[k].rec.actionable_insight = "NONE"
      /\ task[k].st \in {"returning", "done", "collected"} =>
           /\ \E n \in (base.ckpt + 1)..Len(ckpt.lines) :
                WholeAppend(ckpt.lines[n]) /\ ckpt.lines[n][1].data = task[k].rec
           /\ Cardinality(TasksOf(to_process[k])) = 1 => NewFlogOf(to_process[k]) = {}

\* A task that got text that is no JSON has been checkpointed.
C7_Witness ==
  \E k \in Tasks :
    /\ task[k].resp.kind = "GARBAGE"
    /\ task[k].st = "collected"
    /\ Cardinality(NewCkptOf(to_process[k])) = 1

\* C8: normalization totality.  The mapping normalize_categories returns has
\* exactly the input categories as its keys.
C8_NormalizationTotality ==
  pc = "pass2" => DOMAIN category_mapping = unique_categories

\* The batch of categories the b-th answer was for.
NormBatchNo(b) == BatchAt(norm.categories, (b - 1) * batch_size)

\* No response, or a response that cannot be turned into a mapping.
FailedAnswer(a) == a.kind \in {"NONE", "EMPTY", "GARBAGE", "SCALAR"}

\* C9: normalizer batch fallback.  normalize_categories never raises; each
\* batch has at most 50 categories; every category of a batch that failed to
\* normalize is mapped to itself; and what another batch's answer mapped
\* stays as that answer gave it.
C9_BatchFallback ==
  /\ pc # "crashed"
  /\ \A b \in 1..Len(norm.answers) :
       /\ Len(NormBatchNo(b)) <= 50
       /\ FailedAnswer(norm.answers[b]) =>
            \A c \in Range(NormBatchNo(b)) :
              c \in DOMAIN norm.mapping /\ norm.mapping[c] = c
       /\ norm.answers[b].kind = "OBJ" =>
            \A c \in Range(NormBatchNo(b)) \cap DOMAIN norm.answers[b].map :
              c \in DOMAIN norm.mapping /\ norm.mapping[c] = norm.answers[b].map[c]

\* Positions of the checkpoint lines that hold a well-formed record.
WellFormedLines ==
  { n \in 1..Len(ckpt.lines) :
      \/ WholeAppend(ckpt.lines[n])
      \/ /\ Len(ckpt.lines[n]) = 1
         /\ ckpt.lines[n][1].part = "whole"
         /\ ckpt.lines[n][1].data.kind = "rec" }

LineData(n) == ckpt.lines[n][1].data

\* The category pass 2 counts line n under.
CountedAs(n) ==
  IF LineData(n).root_cause_category \in DOMAIN category_mapping
  THEN category_mapping[LineData(n).root_cause_category]
  ELSE LineData(n).root_cause_category

\* C10: corrupt lines are skipped.  Wherever the corrupt lines of the
\* checkpoint file are (text that is no JSON, JSON that is no object, bytes
\* that are no text), no reader is aborted by them, resume filtering has the
\* id of every well-formed line the file held, pass 1 has counted every
\* well-formed line and collected its category, and pass 2 has counted every
\* well-formed line (whose canonical category can be counted) under its
\* category and its sentiment.
C10_CorruptLinesSkipped ==
  /\ pc # "read_raised"
  /\ pc \notin {"start", "setup_failed", "setup_raised"} =>
       \A n \in WellFormedLines : n <= base.ckpt => LineData(n).id \in processed_ids
  /\ pc \in {"normalize", "norm_loop", "pass2", "report", "done", "crashed"} =>
       /\ total_processed >= Cardinality(WellFormedLines)
       /\ \A n \in WellFormedLines : LineData(n).root_cause_category \in unique_categories
  /\ pc \in {"report", "done"} =>
       /\ \A c \in { CountedAs(n) : n \in WellFormedLines } \ {"UNHASHABLE"} :
            /\ c \in DOMAIN agg.root_cause_counts
            /\ agg.root_cause_counts[c] =
                 Cardinality({ n \in WellFormedLines : CountedAs(n) = c })
       /\ SumF(agg.sentiment_counts) =
            Cardinality({ n \in WellFormedLines : CountedAs(n) # "UNHASHABLE" })

\* C11: report synthesis never fails the run.  Whatever the service answers
\* to the aggregation prompt, an invocation that counted at least one line
\* ends with the report written: three narrative sequences (empty on
\* failure), the total and both distributions.
C11_ReportNeverFails ==
  pc = "done" /\ total_processed > 0 =>
    /\ ending = "saved"
    /\ report.written
    /\ report.narrative \in {"EMPTY", "LISTS"}
    /\ report.total = total_processed
    /\ report.root_cause_distribution = agg.root_cause_counts
    /\ report.sentiment_distribution = agg.sentiment_counts

\* C12: setup failure is fatal and early.  When the client cannot be
\* constructed or a directory cannot be created, the process ends with a
\* non-zero status, no item has been dispatched and no append has begun.
C12_SetupFailureFatal ==
  pc \in {"setup_failed", "setup_raised"} =>
    /\ ExitStatus # 0
    /\ to_process = <<>> /\ task = <<>>
    /\ lock = 0 /\ ckpt.cur = <<>> /\ flog.cur = <<>>

\* No line of the checkpoint file can be turned into an AnalysisResult.
NoProcessableResult ==
  \A n \in 1..Len(ReadLines(ckpt)) : Parse(ReadLines(ckpt)[n]).kind # "rec"

\* C13: nothing to aggregate.  An invocation that ends with a checkpoint
\* file holding no processable result (missing, empty, or only lines that are
\* no AnalysisResult) ends in the "No results to aggregate" outcome and
\* writes no report.
C13_NothingToAggregate ==
  pc = "done" /\ NoProcessableResult =>
    /\ ending = "nothing"
    /\ ~report.written

\* C16: only stage-1 emptiness fails an item.  A task carries an error if and
\* only if its timeline was empty; a task with a non-empty timeline that has
\* finished has its record in the checkpoint file, whatever the service
\* answered to the root-cause prompt.
C16_OnlyStage1Fails ==
  \A k \in Tasks :
    /\ task[k].err # "NONE" <=>
         (task[k].st \notin {"queued", "stage1"} /\ task[k].tl = 0)
    /\ task[k].tl > 0 /\ task[k].st \in {"returning", "done", "collected"} =>
         \E n \in (base.ckpt + 1)..Len(ckpt.lines) :
           WholeAppend(ckpt.lines[n]) /\ ckpt.lines[n][1].data = task[k].rec

\* The checkpoint file is being replayed, or has been, in this invocation.
Replaying ==
  pc \in {"pass1", "normalize", "norm_loop", "pass2", "report", "done", "crashed"}

\* The record of task k has been appended by this invocation.
Settled(k) ==
  /\ task[k].st \in {"returning", "done", "collected"}
  /\ IF task[k].err = "NONE"
     THEN \E n \in (base.ckpt + 1)..Len(ckpt.lines) :
            WholeAppend(ckpt.lines[n]) /\ ckpt.lines[n][1].data = task[k].rec
     ELSE \E n \in (base.flog + 1)..Len(flog.lines) :
            /\ WholeAppend(flog.lines[n])
            /\ flog.lines[n][1].data = FailureRecord(to_process[k], task[k].err)

\* C17: phase ordering.  From pass 1 on, every item dispatched in this
\* invocation has settled (its checkpoint or failure line is in the file, no
\* append is in progress), and no step taken from pass 1 on changes either
\* file.
C17_PhaseOrdering ==
  /\ [](Replaying =>
          /\ \A k \in Tasks : Settled(k)
          /\ Len(task) = Len(to_process)
          /\ lock = 0 /\ ckpt.cur = <<>> /\ flog.cur = <<>>)
  /\ [][Replaying => ckpt' = ckpt /\ flog' = flog]_vars

\* Pass 2 runs after two items were dispatched, one checkpointed and one
\* logged as failed.
C17_Witness ==
  /\ pc = "pass2" /\ Len(to_process) = 2
  /\ Settled(1) /\ Settled(2)
  /\ task[1].err = "NONE" /\ task[2].err # "NONE"

\* The category a raw category is counted under.
MappedCategory(raw) ==
  IF raw \in DOMAIN category_mapping THEN category_mapping[raw] ELSE raw

\* The lines of the checkpoint file that pass 2 aggregates, in file order.
AggregatedRecords ==
  SelectSeq(ReadLines(ckpt),
            LAMBDA l : /\ Parse(l).kind = "rec"
                       /\ MappedCategory(Parse(l).root_cause_category) # "UNHASHABLE")

\* The sample entry of a record: canonical category, root cause, first steps.
SampleOf(l) ==
  [cat |-> MappedCategory(Parse(l).root_cause_category),
   root_cause |-> Parse(l).root_cause,
   steps |-> Min(Parse(l).tl, 3)]

\* After pass 2 the sample has min(40, records aggregated) entries, and its
\* j-th entry is the entry of the j-th aggregated record of the file.
SampleIsFirstM ==
  pc \in {"report", "done"} =>
    /\ Len(agg.sample_summaries) = Min(40, Len(AggregatedRecords))
    /\ \A j \in 1..Len(agg.sample_summaries) :
         agg.sample_summaries[j] = SampleOf(AggregatedRecords[j])

\* C19 as stated: first-M sampling, and the retained sample is what the
\* report synthesizer puts before the inference service.
C19_SampleConsumed ==
  /\ SampleIsFirstM
  /\ pc = "done" /\ total_processed > 0 =>
       formatted_summaries = agg.sample_summaries

\* C19, amended: first-M sampling (the sample is the first min(40, n)
\* aggregated records in file order under their canonical categories, no
\* later record is sampled), and the report synthesizer is handed that sample
\* and puts its first min(30, n) entries into the prompt.
C19_FirstMSampling ==
  /\ SampleIsFirstM
  /\ pc = "done" /\ total_processed > 0 =>
       /\ Len(formatted_summaries) = Min(30, Len(agg.sample_summaries))
       /\ \A j \in 1..Len(formatted_summaries) :
            formatted_summaries[j] = agg.sample_summaries[j]

\* More than 40 records after a corrupt line: 40 sampled under the canonical
\* category, 30 of them in the prompt.
C19_Witness ==
  /\ pc = "done"
  /\ Len(AggregatedRecords) > 40
  /\ Parse(ckpt.lines[2]).kind = "garbage"
  /\ Len(agg.sample_summaries) = 40
  /\ agg.sample_summaries[2] = [cat |-> Canonical, root_cause |-> "3", steps |-> 3]
  /\ agg.sample_summaries[3].cat = Canonical
  /\ Parse(ckpt.lines[4]).root_cause_category = "Eta exceeded"
  /\ Len(formatted_summaries) = 30

\* The text of a file: its lines, each followed by a newline, then the
\* text after the last newline.
NewLine == [part |-> "newline", data |-> Garbage]

RECURSIVE FlatLines(_)
FlatLines(ls) ==
  IF ls = <<>> THEN <<>> ELSE Head(ls) \o <<NewLine>> \o FlatLines(Tail(ls))

FileText(f) == FlatLines(f.lines) \o f.cur

IsPrefix(a, b) == Len(a) <= Len(b) /\ SubSeq(b, 1, Len(a)) = a

\* C20: append-only logs.  Every step of every invocation leaves the text
\* each file held as a prefix of the text it holds afterwards; and the steps
\* of resume filtering, normalization, both aggregation passes and report
\* writing leave both files as they are, so a record keeps its stored
\* category whatever label it is counted under.
C20_AppendOnly ==
  [][ /\ IsPrefix(FileText(ckpt), FileText(ckpt'))
      /\ IsPrefix(FileText(flog), FileText(flog'))
      /\ (pc = "start" \/ Replaying) => ckpt' = ckpt /\ flog' = flog ]_vars

\* A second invocation appended after the line of the first, and the record
\* stored as "Eta exceeded" was counted under the canonical label.
C20_Witness ==
  /\ run = 2 /\ pc = "done"
  /\ base.ckpt = 1 /\ Len(ckpt.lines) = 2
  /\ \E n \in 1..2 : LineData(n).root_cause_category = "Eta exceeded"
  /\ MappedCategory("Eta exceeded") = Canonical
  /\ Canonical \in DOMAIN agg.root_cause_counts
  /\ agg.root_cause_counts[Canonical] = 2

\* The ids a later invocation would find in the checkpoint file.
Recoverable == load_processed_ids(ReadLines(ckpt))

\* C14: safe interruption and retry.  Over invocations that can be
\* interrupted anywhere, an invocation that has just filtered has every input
\* item without a checkpoint record in to_process, whatever the failure log
\* holds for it; and an item whose task has succeeded is found in the
\* checkpoint file by a later invocation.
C14_SafeRetry ==
  /\ JustFiltered =>
       \A n \in 1..Len(input) :
         input[n] \notin Recoverable => \E k \in Tasks : to_process[k] = input[n]
  /\ \A k \in Tasks :
       task[k].st \in {"returning", "done", "collected"} /\ task[k].err = "NONE" =>
         to_process[k] \in Recoverable

\* C15: checkpoint well-formedness.  Over invocations and interruptions,
\* every line of the checkpoint file is one whole record of one append, no
\* text is left after the last newline once an invocation has ended, and with
\* unique input ids no id has two lines.
C15_WellFormedLog ==
  /\ \A n \in 1..Len(ckpt.lines) : WholeAppend(ckpt.lines[n])
  /\ Ended \/ pc = "start" => ckpt.cur = <<>>
  /\ UniqueIds(input) => \A x \in Ids : Cardinality(CkptLinesOf(x)) <= 1

\* Positions of the checkpoint lines that hold an AnalysisResult.
RecordLines ==
  { n \in 1..Len(ReadLines(ckpt)) : Parse(ReadLines(ckpt)[n]).kind = "rec" }

\* The records counted under label c by the CategoryMap of this invocation.
RecordsUnder(c) ==
  { n \in RecordLines :
      MappedCategory(Parse(ReadLines(ckpt)[n]).root_cause_category) = c }

\* The labels a distribution can have as keys.
Labels ==
  (DOMAIN agg.root_cause_counts
     \cup { MappedCategory(Parse(ReadLines(ckpt)[n]).root_cause_category) :
              n \in RecordLines })
  \ {"UNHASHABLE"}

\* After pass 2 every label has as its count the number of records of the
\* whole file that the CategoryMap sends to it (a label without a count has
\* no record), and a report that is written carries these counts.
DistributionOfLog ==
  /\ pc \in {"report", "done"} =>
       \A c \in Labels :
         Get(agg.root_cause_counts, c, 0) = Cardinality(RecordsUnder(c))
  /\ pc = "done" /\ ending = "saved" =>
       /\ report.root_cause_distribution = agg.root_cause_counts
       /\ report.sentiment_distribution = agg.sentiment_counts
       /\ report.total = total_processed

\* This step writes the report of an invocation that appended nothing, over
\* the report the invocation before it wrote.
RewritesReport ==
  /\ pc = "report" /\ pc' = "done"
  /\ report.written /\ report.by = run - 1
  /\ report'.written
  /\ Len(ReadLines(ckpt)) = base.ckpt

\* C18 as stated: distribution correctness over the whole log, and a rerun
\* that processes nothing new yields the same total and the same
\* distributions.
C18_RerunSameDistributions ==
  /\ []DistributionOfLog
  /\ [][RewritesReport =>
          /\ report'.total = report.total
          /\ report'.root_cause_distribution = report.root_cause_distribution
          /\ report'.sentiment_distribution = report.sentiment_distribution]_vars

\* C18, amended: distribution correctness over the whole log (records of this
\* and of earlier invocations, each under the label the CategoryMap of this
\* invocation gives its raw category, unmapped categories under their own),
\* and a rerun that processes nothing new yields the same total.
C18_DistributionCorrect ==
  /\ []DistributionOfLog
  /\ [][RewritesReport => report'.total = report.total]_vars

\* A rerun with nothing to process over two records of the earlier
\* invocation, stored as "ETA Exceeded" and "Eta exceeded", both counted
\* under the canonical label: count 2, total 2.
C18_Witness ==
  /\ run = 2 /\ pc = "done" /\ ending = "saved"
  /\ to_process = <<>> /\ base.ckpt = 2 /\ Len(ckpt.lines) = 2
  /\ { Parse(ckpt.lines[n]).root_cause_category : n \in 1..2 } =
       {"ETA Exceeded", "Eta exceeded"}
  /\ report.root_cause_distribution = [c \in {Canonical} |-> 2]
  /\ report.total = 2

====
